---- MODULE Spec2Model ----
(***************************************************************************)
(* Tool adaptation and invocation pipeline of kubernetes-mcp-server:       *)
(* tool mutators (pkg/mcp tool_mutator.go), the target-list tool filter,   *)
(* the generated target-list handler and the elicitation bridge            *)
(* (pkg/mcp elicit.go).                                                    *)
(*                                                                         *)
(* Go strings are modelled as sequences of one-character strings, so that  *)
(* fmt.Sprintf, strings.Contains, strings.ToUpper and sort.Strings are     *)
(* computed byte by byte.  Pointers to jsonschema.Schema and maps are     *)
(* addresses into two heaps so that aliasing between a caller's tool value *)
(* and a mutator's result is visible.                                      *)
(***************************************************************************)
EXTENDS Naturals, Sequences, FiniteSets, TLC

(***************************************************************************)
(* Bounds of the model.                                                    *)
(***************************************************************************)
\* Largest number of tools in a registry.
MaxTools == 2
\* Largest number of single mutator calls made before startup.
MaxCalls == 2
\* Number of concurrent tool invocations.
NumInvocations == 2
\* Largest number of targets the provider returns.
MaxTargets == 2

\* Most mutators handed to one ComposeMutators call.
MaxCompose == 2
\* Most elements of an items sequence or of a top-level sequence of a result tree.
MaxItems == 2

(***************************************************************************)
(* Strings.                                                                *)
(***************************************************************************)
\* The printable ASCII characters in byte order, from the space (32) to the tilde (126).
\* The double quote, the backslash and the backtick occur in no string of the model
\* and are held by name.
AsciiPrintable ==
    <<" ","!","dquote","#","$","%","&","'","(",")","*","+",",","-",".","/","0","1","2","3","4","5",
      "6","7","8","9",":",";","<","=",">","?","@","A","B","C","D","E","F","G","H","I","J","K",
      "L","M","N","O","P","Q","R","S","T","U","V","W","X","Y","Z","[","backslash","]","^","_","backtick","a",
      "b","c","d","e","f","g","h","i","j","k","l","m","n","o","p","q","r","s","t","u","v","w",
      "x","y","z","{","|","}","~">>

\* The byte value of a character (ASCII).
Ord(c) ==
    IF c = "\n" THEN 10
    ELSE 31 + (CHOOSE i \in 1..Len(AsciiPrintable) : AsciiPrintable[i] = c)

Min(S) == CHOOSE x \in S : \A y \in S : x <= y

\* Go's < on strings: lexicographic order of the bytes.
StrLess(a, b) ==
    LET n == IF Len(a) < Len(b) THEN Len(a) ELSE Len(b)
        diff == {i \in 1..n : a[i] # b[i]}
    IN  IF diff = {} THEN Len(a) < Len(b)
        ELSE Ord(a[Min(diff)]) < Ord(b[Min(diff)])

\* strings.Contains
Contains(s, substr) ==
    \E i \in 0..Len(s) :
        /\ i + Len(substr) <= Len(s)
        /\ SubSeq(s, i + 1, i + Len(substr)) = substr

\* strings.ToUpper on one byte, and on a string (ASCII).
ToUpperByte(c) ==
    IF Ord(c) >= 97 /\ Ord(c) <= 122 THEN AsciiPrintable[Ord(c) - 32 - 31] ELSE c

ToUpper(s) == [i \in 1..Len(s) |-> ToUpperByte(s[i])]

\* The decimal digits of fmt's %d for a natural number.
Digit(d) == AsciiPrintable[17 + d]

RECURSIVE Itoa(_)
Itoa(n) == IF n < 10 THEN <<Digit(n)>> ELSE Itoa(n \div 10) \o <<Digit(n % 10)>>

(***************************************************************************)
(* String literals of the source.                                          *)
(***************************************************************************)
\* TargetsListToolName is the string "targets_list"
TargetsListToolName ==
    <<"t","a","r","g","e","t","s","_","l","i","s","t">>

\* StrObject is the string "object"
StrObject ==
    <<"o","b","j","e","c","t">>

\* StrString is the string "string"
StrString ==
    <<"s","t","r","i","n","g">>

\* PropDescPre is the string "Optional parameter selecting which "
PropDescPre ==
    <<"O","p","t","i","o","n","a","l"," ","p","a","r","a","m","e","t","e","r"," ","s","e","l",
      "e","c","t","i","n","g"," ","w","h","i","c","h"," ">>

\* PropDescMid is the string " to run the tool in. Defaults to "
PropDescMid ==
    <<" ","t","o"," ","r","u","n"," ","t","h","e"," ","t","o","o","l"," ","i","n","."," ","D",
      "e","f","a","u","l","t","s"," ","t","o"," ">>

\* PropDescPost is the string " if not set"
PropDescPost ==
    <<" ","i","f"," ","n","o","t"," ","s","e","t">>

\* ListSuffix is the string "_list"
ListSuffix ==
    <<"_","l","i","s","t">>

\* DescListPre is the string "List all available "
DescListPre ==
    <<"L","i","s","t"," ","a","l","l"," ","a","v","a","i","l","a","b","l","e"," ">>

\* DescListPost is the string "s that can be targeted by tools"
DescListPost ==
    <<"s"," ","t","h","a","t"," ","c","a","n"," ","b","e"," ","t","a","r","g","e","t","e","d",
      " ","b","y"," ","t","o","o","l","s">>

\* TitleListPost is the string " List"
TitleListPost ==
    <<" ","L","i","s","t">>

\* FailedToFindPre is the string "failed to find any targets: "
FailedToFindPre ==
    <<"f","a","i","l","e","d"," ","t","o"," ","f","i","n","d"," ","a","n","y"," ","t","a","r",
      "g","e","t","s",":"," ">>

\* NoTargetsPre is the string "No "
NoTargetsPre ==
    <<"N","o"," ">>

\* NoTargetsPost is the string "s available"
NoTargetsPost ==
    <<"s"," ","a","v","a","i","l","a","b","l","e">>

\* RepAvailable is the string "Available "
RepAvailable ==
    <<"A","v","a","i","l","a","b","l","e"," ">>

\* RepTotalPre is the string "s ("
RepTotalPre ==
    <<"s"," ","(">>

\* RepTotalMid is the string " total, default: "
RepTotalMid ==
    <<" ","t","o","t","a","l",","," ","d","e","f","a","u","l","t",":"," ">>

\* RepHeaderEnd is the string "):\n\n"
RepHeaderEnd ==
    <<")",":","\n","\n">>

\* RepFormatPre is the string "Format: [*] "
RepFormatPre ==
    <<"F","o","r","m","a","t",":"," ","[","*","]"," ">>

\* RepFormatPost is the string "_NAME\n"
RepFormatPost ==
    <<"_","N","A","M","E","\n">>

\* RepLegendPre is the string " ( * indicates the default "
RepLegendPre ==
    <<" ","(","*"," ","i","n","d","i","c","a","t","e","s"," ","t","h","e"," ","d","e","f","a",
      "u","l","t"," ">>

\* RepLegendMid is the string " used in tools if "
RepLegendMid ==
    <<" ","u","s","e","d"," ","i","n"," ","t","o","o","l","s"," ","i","f"," ">>

\* RepLegendPost is the string " is not set)\n\n"
RepLegendPost ==
    <<" ","i","s"," ","n","o","t"," ","s","e","t",")","\n","\n">>

\* RepSectionPost is the string "s:\n---------\n"
RepSectionPost ==
    <<"s",":","\n","-","-","-","-","-","-","-","-","-","\n">>

\* RepFooter is the string "---------\n\n"
RepFooter ==
    <<"-","-","-","-","-","-","-","-","-","\n","\n">>

\* RepUsagePre is the string "To use a specific "
RepUsagePre ==
    <<"T","o"," ","u","s","e"," ","a"," ","s","p","e","c","i","f","i","c"," ">>

\* RepUsageMid is the string " with any tool, set the '"
RepUsageMid ==
    <<" ","w","i","t","h"," ","a","n","y"," ","t","o","o","l",","," ","s","e","t"," ","t","h",
      "e"," ","'">>

\* RepUsagePost is the string "' parameter in the tool call arguments"
RepUsagePost ==
    <<"'"," ","p","a","r","a","m","e","t","e","r"," ","i","n"," ","t","h","e"," ","t","o","o",
      "l"," ","c","a","l","l"," ","a","r","g","u","m","e","n","t","s">>

\* NotSupportedPhrase is the string "does not support elicitation"
NotSupportedPhrase ==
    <<"d","o","e","s"," ","n","o","t"," ","s","u","p","p","o","r","t"," ","e","l","i","c","i",
      "t","a","t","i","o","n">>

\* ErrElicitationNotSupportedMsg is the string "client does not support elicitation"
ErrElicitationNotSupportedMsg ==
    <<"c","l","i","e","n","t"," ","d","o","e","s"," ","n","o","t"," ","s","u","p","p","o","r",
      "t"," ","e","l","i","c","i","t","a","t","i","o","n">>

\* NoSessionMsg is the string "no MCP session found in context"
NoSessionMsg ==
    <<"n","o"," ","M","C","P"," ","s","e","s","s","i","o","n"," ","f","o","u","n","d"," ","i",
      "n"," ","c","o","n","t","e","x","t">>

\* ColonSpace is the string ": "
ColonSpace ==
    <<":"," ">>

\* LegacyContextsListName is the string "configuration_contexts_list"
LegacyContextsListName ==
    <<"c","o","n","f","i","g","u","r","a","t","i","o","n","_","c","o","n","t","e","x","t","s",
      "_","l","i","s","t">>

\* KubeConfigTargetParameterName is the string "context"
KubeConfigTargetParameterName ==
    <<"c","o","n","t","e","x","t">>

(***************************************************************************)
(* Strings used as inputs.                                                 *)
(***************************************************************************)
\* StrCluster is the string "cluster"
StrCluster ==
    <<"c","l","u","s","t","e","r">>

\* StrTargets is the string "targets"
StrTargets ==
    <<"t","a","r","g","e","t","s">>

\* StrConfigurationContexts is the string "configuration_contexts"
StrConfigurationContexts ==
    <<"c","o","n","f","i","g","u","r","a","t","i","o","n","_","c","o","n","t","e","x","t","s">>

\* StrClusterList is the string "cluster_list"
StrClusterList ==
    <<"c","l","u","s","t","e","r","_","l","i","s","t">>

\* StrTestTool is the string "test-tool"
StrTestTool ==
    <<"t","e","s","t","-","t","o","o","l">>

\* StrNilSchemaTool is the string "nil-schema-tool"
StrNilSchemaTool ==
    <<"n","i","l","-","s","c","h","e","m","a","-","t","o","o","l">>

\* StrPlainTool is the string "non-cluster-aware-tool"
StrPlainTool ==
    <<"n","o","n","-","c","l","u","s","t","e","r","-","a","w","a","r","e","-","t","o","o","l">>

\* StrExistingProp is the string "existing-prop"
StrExistingProp ==
    <<"e","x","i","s","t","i","n","g","-","p","r","o","p">>

\* StrATestTool is the string "A test tool"
StrATestTool ==
    <<"A"," ","t","e","s","t"," ","t","o","o","l">>

\* StrDefaultCluster is the string "default-cluster"
StrDefaultCluster ==
    <<"d","e","f","a","u","l","t","-","c","l","u","s","t","e","r">>

\* StrUnauthorized is the string "unauthorized"
StrUnauthorized ==
    <<"u","n","a","u","t","h","o","r","i","z","e","d">>

\* StrContextCanceled is the string "context canceled"
StrContextCanceled ==
    <<"c","o","n","t","e","x","t"," ","c","a","n","c","e","l","e","d">>

\* StrConnectionClosed is the string "connection closed"
StrConnectionClosed ==
    <<"c","o","n","n","e","c","t","i","o","n"," ","c","l","o","s","e","d">>

\* StrHostRefuses is the string "host does not support elicitation while locked"
StrHostRefuses ==
    <<"h","o","s","t"," ","d","o","e","s"," ","n","o","t"," ","s","u","p","p","o","r","t"," ",
      "e","l","i","c","i","t","a","t","i","o","n"," ","w","h","i","l","e"," ","l","o","c","k",
      "e","d">>

\* StrPleaseConfirm is the string "Please confirm"
StrPleaseConfirm ==
    <<"P","l","e","a","s","e"," ","c","o","n","f","i","r","m">>

\* StrName is the string "name"
StrName ==
    <<"n","a","m","e">>

\* StrTestValue is the string "test-value"
StrTestValue ==
    <<"t","e","s","t","-","v","a","l","u","e">>

\* TargetA is the string "a"
TargetA ==
    <<"a">>

\* TargetUpperB is the string "B"
TargetUpperB ==
    <<"B">>

\* TargetAb is the string "ab"
TargetAb ==
    <<"a","b">>

(***************************************************************************)
(* Data model: api.ServerTool, jsonschema.Schema and the heaps.            *)
(***************************************************************************)
\* The nil pointer and the nil map.
NilPtr == 0

\* A map[string]*jsonschema.Schema with no entry.
EmptyMap == [k \in {} |-> NilPtr]

\* m[k] = v on a Go map.
MapPut(m, k, v) == [x \in (DOMAIN m) \cup {k} |-> IF x = k THEN v ELSE m[x]]

\* &jsonschema.Schema{Type: t, Description: d}: the fields the code reads or writes.
Schema(t, d, props) == [Type |-> t, Description |-> d, Properties |-> props]

\* api.ServerTool.IsClusterAware: an unset ClusterAware means cluster-aware.
IsClusterAware(tool) ==
    IF tool.ClusterAware = "nil" THEN TRUE ELSE tool.ClusterAware = "true"

\* api.ServerTool.IsTargetListProvider: an unset TargetListProvider means not a provider.
IsTargetListProvider(tool) ==
    IF tool.TargetListProvider = "nil" THEN FALSE ELSE tool.TargetListProvider = "true"

\* A handler that is not the generated one: none (nil) or the tool's own.
NilHandler == [kind |-> "nil", targetParameterName |-> <<>>, defaultTarget |-> <<>>]

OwnHandler == [kind |-> "own", targetParameterName |-> <<>>, defaultTarget |-> <<>>]

(***************************************************************************)
(* Tool mutators.  A mutator takes and returns m = [tool, schemas, maps]:  *)
(* the tool value (passed and returned by value) and the two heaps its     *)
(* pointers refer to.                                                      *)
(***************************************************************************)
\* createTargetProperty with the two arguments of the format exchanged.
createTargetProperty_DefaultFirst(defaultCluster, targetName) ==
    Schema(StrString,
           PropDescPre \o defaultCluster \o PropDescMid \o targetName \o PropDescPost,
           NilPtr)

createTargetProperty(defaultCluster, targetName) ==
    Schema(StrString,
           PropDescPre \o targetName \o PropDescMid \o defaultCluster \o PropDescPost,
           NilPtr)

\* The closure createTargetListHandler returns: the values it captures
\* (the provider p is the one provider of the model).
createTargetListHandler(targetParameterName, defaultTarget) ==
    [kind |-> "createTargetListHandler",
     targetParameterName |-> targetParameterName,
     defaultTarget |-> defaultTarget]

capitalizeFirst(s) ==
    IF Len(s) = 0 THEN s ELSE ToUpper(SubSeq(s, 1, 1)) \o SubSeq(s, 2, Len(s))

\* WithTargetParameter without the nil check on Properties: it always makes a new map.
WithTargetParameter_AlwaysNewMap(defaultCluster, targetParameterName, isMultiCluster, m) ==
    IF ~IsClusterAware(m.tool) \/ ~isMultiCluster
    THEN m
    ELSE LET m1 == IF m.tool.InputSchema = NilPtr
                   THEN [m EXCEPT !.schemas = Append(@, Schema(StrObject, <<>>, NilPtr)),
                                  !.tool.InputSchema = Len(m.schemas) + 1]
                   ELSE m
             s  == m1.tool.InputSchema
             m2 == [m1 EXCEPT !.maps = Append(@, EmptyMap),
                              !.schemas[s].Properties = Len(m1.maps) + 1]
             p  == Len(m2.schemas) + 1
         IN  [m2 EXCEPT !.schemas = Append(@, createTargetProperty(defaultCluster,
                                                                   targetParameterName)),
                        !.maps[m2.schemas[s].Properties] =
                            MapPut(@, targetParameterName, p)]

\* WithTargetParameter whose early return needs both conditions instead of either.
WithTargetParameter_BothConditions(defaultCluster, targetParameterName, isMultiCluster, m) ==
    IF ~IsClusterAware(m.tool) /\ ~isMultiCluster
    THEN m
    ELSE LET m1 == IF m.tool.InputSchema = NilPtr
                   THEN [m EXCEPT !.schemas = Append(@, Schema(StrObject, <<>>, NilPtr)),
                                  !.tool.InputSchema = Len(m.schemas) + 1]
                   ELSE m
             s  == m1.tool.InputSchema
             m2 == IF m1.schemas[s].Properties = NilPtr
                   THEN [m1 EXCEPT !.maps = Append(@, EmptyMap),
                                   !.schemas[s].Properties = Len(m1.maps) + 1]
                   ELSE m1
             p  == Len(m2.schemas) + 1
         IN  [m2 EXCEPT !.schemas = Append(@, createTargetProperty(defaultCluster,
                                                                   targetParameterName)),
                        !.maps[m2.schemas[s].Properties] =
                            MapPut(@, targetParameterName, p)]

WithTargetParameter(defaultCluster, targetParameterName, isMultiCluster, m) ==
    IF ~IsClusterAware(m.tool) \/ ~isMultiCluster
    THEN m
    ELSE LET m1 == IF m.tool.InputSchema = NilPtr
                   THEN [m EXCEPT !.schemas = Append(@, Schema(StrObject, <<>>, NilPtr)),
                                  !.tool.InputSchema = Len(m.schemas) + 1]
                   ELSE m
             s  == m1.tool.InputSchema
             m2 == IF m1.schemas[s].Properties = NilPtr
                   THEN [m1 EXCEPT !.maps = Append(@, EmptyMap),
                                   !.schemas[s].Properties = Len(m1.maps) + 1]
                   ELSE m1
             p  == Len(m2.schemas) + 1
         IN  [m2 EXCEPT !.schemas = Append(@, createTargetProperty(defaultCluster,
                                                                   targetParameterName)),
                        !.maps[m2.schemas[s].Properties] =
                            MapPut(@, targetParameterName, p)]

\* WithTargetListTool selecting by the TargetListProvider flag instead of the name.
WithTargetListTool_ByFlag(defaultTarget, targetParameterName, m) ==
    IF ~IsTargetListProvider(m.tool)
    THEN m
    ELSE [m EXCEPT !.tool.Name = targetParameterName \o ListSuffix,
                   !.tool.Description = DescListPre \o targetParameterName \o DescListPost,
                   !.tool.Annotations.Title =
                       capitalizeFirst(targetParameterName) \o TitleListPost,
                   !.tool.Handler =
                       createTargetListHandler(targetParameterName, defaultTarget)]

WithTargetListTool(defaultTarget, targetParameterName, m) ==
    IF m.tool.Name # TargetsListToolName
    THEN m
    ELSE [m EXCEPT !.tool.Name = targetParameterName \o ListSuffix,
                   !.tool.Description = DescListPre \o targetParameterName \o DescListPost,
                   !.tool.Annotations.Title =
                       capitalizeFirst(targetParameterName) \o TitleListPost,
                   !.tool.Handler =
                       createTargetListHandler(targetParameterName, defaultTarget)]

\* A mutator value: which constructor built it and the arguments it closed over.
MutTargetParameter(defaultCluster, targetParameterName, isMultiCluster) ==
    [kind |-> "WithTargetParameter", defaultTarget |-> defaultCluster,
     targetParameterName |-> targetParameterName, isMultiCluster |-> isMultiCluster]

MutTargetListTool(defaultTarget, targetParameterName) ==
    [kind |-> "WithTargetListTool", defaultTarget |-> defaultTarget,
     targetParameterName |-> targetParameterName, isMultiCluster |-> FALSE]

\* Calling a mutator value on a tool.
ApplyMutator(mut, m) ==
    IF mut.kind = "WithTargetParameter"
    THEN WithTargetParameter(mut.defaultTarget, mut.targetParameterName,
                             mut.isMultiCluster, m)
    ELSE WithTargetListTool(mut.defaultTarget, mut.targetParameterName, m)

\* ComposeMutators(mutators...)(tool): each mutator in order, on the previous one's result.
\* ComposeMutators ranging over the mutators from the last to the first.
RECURSIVE ComposeMutators_Reversed(_, _)
ComposeMutators_Reversed(mutators, m) ==
    IF mutators = <<>> THEN m
    ELSE ApplyMutator(Head(mutators), ComposeMutators_Reversed(Tail(mutators), m))

RECURSIVE ComposeMutators(_, _)
ComposeMutators(mutators, m) ==
    IF mutators = <<>> THEN m
    ELSE ComposeMutators(Tail(mutators), ApplyMutator(Head(mutators), m))

(***************************************************************************)
(* Tool filters.                                                           *)
(***************************************************************************)
\* ShouldIncludeTargetListTool that knows the legacy tool only.
ShouldIncludeTargetListTool_LegacyOnly(targetName, isMultiCluster, other, tool) ==
    IF ~IsTargetListProvider(tool) THEN TRUE
    ELSE IF ~isMultiCluster THEN FALSE
    ELSE IF tool.Name = LegacyContextsListName
         THEN targetName = KubeConfigTargetParameterName
    ELSE TRUE

\* ShouldIncludeTargetListTool that looks at the topology before the flag.
ShouldIncludeTargetListTool_TopologyFirst(targetName, isMultiCluster, other, tool) ==
    IF ~isMultiCluster THEN FALSE
    ELSE IF ~IsTargetListProvider(tool) THEN TRUE
    ELSE IF tool.Name = LegacyContextsListName
         THEN targetName = KubeConfigTargetParameterName
    ELSE IF tool.Name = targetName \o ListSuffix
         THEN targetName # KubeConfigTargetParameterName
    ELSE other

\* ShouldIncludeTargetListTool(targetName, isMultiCluster)(tool).  `other` is the
\* answer for a target-list provider under multiple targets whose name is neither the
\* legacy one nor "<targetName>_list", which neither the tests nor the design fix.
ShouldIncludeTargetListTool(targetName, isMultiCluster, other, tool) ==
    IF ~IsTargetListProvider(tool) THEN TRUE
    ELSE IF ~isMultiCluster THEN FALSE
    ELSE IF tool.Name = LegacyContextsListName
         THEN targetName = KubeConfigTargetParameterName
    ELSE IF tool.Name = targetName \o ListSuffix
         THEN targetName # KubeConfigTargetParameterName
    ELSE other

\* A filter value and its call.
FilterTargetListTool(targetName, isMultiCluster, other) ==
    [kind |-> "ShouldIncludeTargetListTool", targetName |-> targetName,
     isMultiCluster |-> isMultiCluster, other |-> other]

ApplyFilter(f, tool) ==
    ShouldIncludeTargetListTool(f.targetName, f.isMultiCluster, f.other, tool)

\* CompositeFilter(filters...)(tool): true iff every filter is.
CompositeFilter(filters, tool) ==
    \A i \in 1..Len(filters) : ApplyFilter(filters[i], tool)

(***************************************************************************)
(* Errors.  An error value has an identity (errors.New makes one, compared *)
(* by errors.Is), the text Error() returns and the identities of the       *)
(* errors it wraps (fmt.Errorf with %w).                                   *)
(***************************************************************************)
NoError == [id |-> "nil", msg |-> <<>>, wraps |-> <<>>]

\* errors.New(msg), as the value named id.
NewError(id, msg) == [id |-> id, msg |-> msg, wraps |-> <<>>]

\* fmt.Errorf(prefix + "%w", err)
ErrorfWrap(prefix, err) ==
    [id |-> "fmt.wrapError", msg |-> prefix \o err.msg, wraps |-> <<err.id>> \o err.wraps]

\* fmt.Errorf("%w: %s", err, text)
ErrorfWrapText(err, text) ==
    [id |-> "fmt.wrapError", msg |-> err.msg \o ColonSpace \o text,
     wraps |-> <<err.id>> \o err.wraps]

\* errors.Is(err, target)
ErrorsIs(err, target) ==
    /\ err # NoError
    /\ \/ err.id = target.id
       \/ \E i \in 1..Len(err.wraps) : err.wraps[i] = target.id

ErrElicitationNotSupported ==
    NewError("ErrElicitationNotSupported", ErrElicitationNotSupportedMsg)

\* context.Canceled
ContextCanceled == NewError("context.Canceled", StrContextCanceled)

(***************************************************************************)
(* The generated target-list handler.                                      *)
(***************************************************************************)
\* api.NewToolCallResult(content, err)
NewToolCallResult(content, err) == [Content |-> content, Error |-> err]

\* What a handler returns: a pointer to a result (a sequence of one, or none for
\* nil) and a Go error.
Return(result, err) == [result |-> result, err |-> err]

\* sort.Strings on a copy: ascending byte order.
RECURSIVE InsertSorted(_, _)
InsertSorted(x, sorted) ==
    IF sorted = <<>> THEN <<x>>
    ELSE IF StrLess(x, Head(sorted)) THEN <<x>> \o sorted
    ELSE <<Head(sorted)>> \o InsertSorted(x, Tail(sorted))

\* sort.Strings left out: the targets as the provider returned them.
SortStrings_NoSort(targets) == targets

RECURSIVE SortStrings(_)
SortStrings(targets) ==
    IF targets = <<>> THEN <<>>
    ELSE InsertSorted(Head(targets), SortStrings(Tail(targets)))

\* sort.Strings applied to the slice the provider returned, without the copy.
SortedCopy_InPlace(targets) ==
    [sortedTargets |-> SortStrings(targets), targets |-> SortStrings(targets)]

\* make, copy, sort.Strings: the sorted private slice, and the slice the provider
\* returned as these statements leave it.
SortedCopy(targets) ==
    [sortedTargets |-> SortStrings(targets), targets |-> targets]

\* The loop over sortedTargets: one line per target.
RECURSIVE TargetLines(_, _)
TargetLines(sortedTargets, defaultTarget) ==
    IF sortedTargets = <<>> THEN <<>>
    ELSE LET target == Head(sortedTargets)
             marker == IF target = defaultTarget THEN <<"*">> ELSE <<" ">>
         IN  marker \o <<" ">> \o target \o <<"\n">>
                 \o TargetLines(Tail(sortedTargets), defaultTarget)

\* The report of a non-empty, sorted target list.
TargetListReport(targetParameterName, defaultTarget, sortedTargets) ==
    RepAvailable \o targetParameterName \o RepTotalPre
        \o Itoa(Len(sortedTargets)) \o RepTotalMid \o defaultTarget \o RepHeaderEnd
    \o RepFormatPre \o ToUpper(targetParameterName) \o RepFormatPost
    \o RepLegendPre \o targetParameterName \o RepLegendMid
        \o targetParameterName \o RepLegendPost
    \o capitalizeFirst(targetParameterName) \o RepSectionPost
    \o TargetLines(sortedTargets, defaultTarget)
    \o RepFooter
    \o RepUsagePre \o targetParameterName \o RepUsageMid
        \o targetParameterName \o RepUsagePost

\* The handler with the provider's error returned as the Go error, without a result.
TargetListHandler_ErrorEscalates(targetParameterName, defaultTarget, targets, err) ==
    IF err # NoError
    THEN Return(<<>>, ErrorfWrap(FailedToFindPre, err))
    ELSE IF Len(targets) = 0
    THEN Return(<<NewToolCallResult(NoTargetsPre \o targetParameterName \o NoTargetsPost,
                                    NoError)>>, NoError)
    ELSE Return(<<NewToolCallResult(
                      TargetListReport(targetParameterName, defaultTarget,
                                       SortStrings(targets)),
                      NoError)>>, NoError)

\* The handler createTargetListHandler returns, from the point where p.GetTargets
\* has returned (targets, err).
TargetListHandler(targetParameterName, defaultTarget, targets, err) ==
    IF err # NoError
    THEN Return(<<NewToolCallResult(<<>>, ErrorfWrap(FailedToFindPre, err))>>, NoError)
    ELSE IF Len(targets) = 0
    THEN Return(<<NewToolCallResult(NoTargetsPre \o targetParameterName \o NoTargetsPost,
                                    NoError)>>, NoError)
    ELSE Return(<<NewToolCallResult(
                      TargetListReport(targetParameterName, defaultTarget,
                                       SortedCopy(targets).sortedTargets),
                      NoError)>>, NoError)

(***************************************************************************)
(* The elicitation bridge: sessionElicitor.Elicit.                         *)
(***************************************************************************)
\* ctx.Value(MCPSessionContextKey).(*mcp.ServerSession) gave a usable session:
\* the value is there, has the type, and is not a nil pointer.
HasSession_NoNilCheck(value) == value \notin {"absent", "wrongType"}

HasSession(value) ==
    LET ok == value \notin {"absent", "wrongType"}
        session == IF value = "live" THEN "live" ELSE "nil"
    IN  ~(~ok \/ session = "nil")

\* The error Elicit returns when the context holds no session.
NoSessionError == NewError("fmt.Errorf", NoSessionMsg)

\* The context Elicit hands to session.Elicit: its own ("ctx").
SessionCallContext_Background == "background"

SessionCallContext == "ctx"

\* Elicit from the point where session.Elicit has returned (result, err).
ElicitReturn(result, err) ==
    IF err # NoError
    THEN IF Contains(err.msg, NotSupportedPhrase)
         THEN Return(<<>>, ErrorfWrapText(ErrElicitationNotSupported, err.msg))
         ELSE Return(<<>>, err)
    ELSE Return(<<[Action |-> result[1].Action, Content |-> result[1].Content]>>, NoError)

(***************************************************************************)
(* Output normalizer (PruneForStructuredOutput).  A result tree is a node  *)
(* [t, s, kids]: t is the tag ("null", "bool", "num", "str", "seq",        *)
(* "map"), s the scalar's text, kids the ordered children [k, v] (k is the *)
(* key in a mapping and "" in a sequence).                                 *)
(***************************************************************************)
KeyMetadata == "metadata"

KeyItems == "items"

KeyManagedFields == "managedFields"

KeyAnnotations == "annotations"

KeyLastApplied == "kubectl.kubernetes.io/last-applied-configuration"

Null == [t |-> "null", s |-> "", kids |-> <<>>]

Scalar(tag, text) == [t |-> tag, s |-> text, kids |-> <<>>]

Pair(k, v) == [k |-> k, v |-> v]

SeqOf(elems) ==
    [t |-> "seq", s |-> "",
     kids |-> IF elems = <<>> THEN <<>>
              ELSE [i \in 1..Len(elems) |-> Pair("", elems[i])]]

MapOf(pairs) == [t |-> "map", s |-> "", kids |-> pairs]

IsMapping(v) == v.t = "map"

IsSequence(v) == v.t = "seq"

HasKey(m, key) == \E i \in 1..Len(m.kids) : m.kids[i].k = key

\* m[key], for a key the mapping has.
Get(m, key) == m.kids[CHOOSE i \in 1..Len(m.kids) : m.kids[i].k = key].v

\* The mapping without the key, the other entries in their order.
Delete(m, key) ==
    LET Keep(p) == p.k # key IN [m EXCEPT !.kids = SelectSeq(m.kids, Keep)]

\* The mapping with the value of an existing key replaced, in place.
Put(m, key, v) ==
    [m EXCEPT !.kids = IF m.kids = <<>> THEN <<>>
                       ELSE [i \in 1..Len(m.kids) |->
                                IF m.kids[i].k = key THEN Pair(key, v) ELSE m.kids[i]]]

\* A resource: a mapping with a metadata sub-mapping.
IsResource(v) ==
    /\ IsMapping(v)
    /\ HasKey(v, KeyMetadata)
    /\ IsMapping(Get(v, KeyMetadata))

\* The pruning rules without rule c: an emptied annotations mapping stays.
pruneMetadata_KeepsEmptyAnnotations(meta) ==
    LET a == Delete(meta, KeyManagedFields)
    IN  IF HasKey(a, KeyAnnotations) /\ IsMapping(Get(a, KeyAnnotations))
        THEN Put(a, KeyAnnotations, Delete(Get(a, KeyAnnotations), KeyLastApplied))
        ELSE a

\* The pruning rules applied one per call: the first that finds something to remove.
pruneMetadata_OneRulePerCall(meta) ==
    IF HasKey(meta, KeyManagedFields)
    THEN Delete(meta, KeyManagedFields)
    ELSE IF HasKey(meta, KeyAnnotations) /\ IsMapping(Get(meta, KeyAnnotations))
         THEN LET ann == Delete(Get(meta, KeyAnnotations), KeyLastApplied)
              IN  IF ann.kids = <<>>
                  THEN Delete(meta, KeyAnnotations)
                  ELSE Put(meta, KeyAnnotations, ann)
         ELSE meta

\* Pruning rules a, b, c on a resource's metadata mapping.
pruneMetadata(meta) ==
    LET a == Delete(meta, KeyManagedFields)
    IN  IF HasKey(a, KeyAnnotations) /\ IsMapping(Get(a, KeyAnnotations))
        THEN LET ann == Delete(Get(a, KeyAnnotations), KeyLastApplied)
             IN  IF ann.kids = <<>>
                 THEN Delete(a, KeyAnnotations)
                 ELSE Put(a, KeyAnnotations, ann)
        ELSE a

\* Dispatch rule 1: a resource has its metadata pruned and, when it has an items
\* sequence, each item handled by rule 1 again; any other value is returned as is.
RECURSIVE pruneResource(_)
pruneResource(v) ==
    IF ~IsResource(v) THEN v
    ELSE LET pruned == Put(v, KeyMetadata, pruneMetadata(Get(v, KeyMetadata)))
         IN  IF HasKey(pruned, KeyItems) /\ IsSequence(Get(pruned, KeyItems))
             THEN LET items == Get(pruned, KeyItems).kids
                  IN  Put(pruned, KeyItems,
                          SeqOf([i \in 1..Len(items) |-> pruneResource(items[i].v)]))
             ELSE pruned

\* normalize: dispatch rules 1, 2, 3.
PruneForStructuredOutput(v) ==
    IF IsResource(v) THEN pruneResource(v)
    ELSE IF IsSequence(v)
         THEN SeqOf([i \in 1..Len(v.kids) |->
                        IF IsMapping(v.kids[i].v) THEN pruneResource(v.kids[i].v)
                        ELSE v.kids[i].v])
         ELSE v

(***************************************************************************)
(* State.                                                                  *)
(***************************************************************************)
VARIABLES
    tools,       \* the registry: a sequence of api.ServerTool values
    schemas,     \* heap of jsonschema.Schema objects, by address
    maps,        \* heap of Properties maps, by address
    cfg,         \* defaultTarget, targetParameterName, isMultiCluster of the provider
    phase,       \* "config" until the startup pipeline has run, then "serving"
    calls,       \* number of single mutator calls made so far
    lastCall,    \* the last mutator call: its mutators, argument, result, heaps before
    registered,  \* the registry as it was handed to the startup pipeline
    catalog,     \* the tools exposed to clients after the filter
    provider,    \* the target provider: the targets and the error GetTargets returns
    hpc,         \* per invocation of the target-list handler: "idle", "got", "done"
    hlocal,      \* per invocation: the (targets, err) it got from the provider
    hresult,     \* per invocation: what the handler returned
    ctx,         \* per invocation: the session value in its context, and cancellation
    session,     \* per invocation: its client session (capability, requests, response)
    epc,         \* per invocation: where its Elicit call is
    sret,        \* per invocation: what session.Elicit returned
    eret,        \* per invocation: what Elicit returned
    nval,        \* the result tree handed to the normalizer
    nres         \* what the normalizer returned: for nval, then for its own result

mutVars == <<tools, schemas, maps, cfg, phase, calls, lastCall, registered, catalog>>

handlerVars == <<provider, hpc, hlocal, hresult>>

elicitVars == <<ctx, session, epc, sret, eret>>

normVars == <<nval, nres>>

vars == <<mutVars, handlerVars, elicitVars, normVars>>

(***************************************************************************)
(* Registries the model starts from.                                       *)
(***************************************************************************)
\* A tool as a toolset declares it: shape says what its InputSchema is
\* ("nil": no schema, "noprops": a schema with a nil Properties map,
\*  "empty": an empty Properties map, "existing": a map with two properties).
Template(name, shape, clusterAware, targetListProvider) ==
    [Name |-> name, shape |-> shape, ClusterAware |-> clusterAware,
     TargetListProvider |-> targetListProvider]

TemplatePool ==
    << Template(TargetsListToolName, "empty", "false", "true"),
       Template(LegacyContextsListName, "noprops", "false", "true"),
       Template(StrClusterList, "empty", "nil", "nil"),
       Template(StrTestTool, "existing", "nil", "nil"),
       Template(StrNilSchemaTool, "nil", "true", "nil"),
       Template(StrPlainTool, "empty", "false", "false") >>

\* The tool value of a template whose schema is at address `schema`.
ToolOf(t, schema) ==
    [Name |-> t.Name,
     Description |-> StrATestTool,
     InputSchema |-> schema,
     Annotations |-> [Title |-> <<>>, ReadOnlyHint |-> "true"],
     ClusterAware |-> t.ClusterAware,
     TargetListProvider |-> t.TargetListProvider,
     Handler |-> OwnHandler]

\* Allocates a template's schema and appends its tool to the registry r.
RegisterTool(t, r) ==
    LET ns == Len(r.schemas)
        nm == Len(r.maps)
    IN  CASE t.shape = "nil" ->
               [r EXCEPT !.tools = Append(@, ToolOf(t, NilPtr))]
          [] t.shape = "noprops" ->
               [r EXCEPT !.tools = Append(@, ToolOf(t, ns + 1)),
                         !.schemas = Append(@, Schema(StrObject, <<>>, NilPtr))]
          [] t.shape = "empty" ->
               [r EXCEPT !.tools = Append(@, ToolOf(t, ns + 1)),
                         !.schemas = Append(@, Schema(StrObject, <<>>, nm + 1)),
                         !.maps = Append(@, EmptyMap)]
          [] t.shape = "existing" ->
               [r EXCEPT !.tools = Append(@, ToolOf(t, ns + 3)),
                         !.schemas = @ \o << Schema(StrString, <<>>, NilPtr),
                                             Schema(StrString, <<>>, NilPtr),
                                             Schema(StrObject, <<>>, nm + 1) >>,
                         !.maps = Append(@, MapPut(MapPut(EmptyMap, StrExistingProp, ns + 1),
                                                   StrCluster, ns + 2))]

RECURSIVE RegisterAll(_, _)
RegisterAll(ts, r) ==
    IF ts = <<>> THEN r ELSE RegisterAll(Tail(ts), RegisterTool(Head(ts), r))

RECURSIVE Ascending(_)
Ascending(S) ==
    IF S = {} THEN <<>> ELSE <<Min(S)>> \o Ascending(S \ {Min(S)})

\* The registries: up to MaxTools distinct templates of the pool.
Registries ==
    { RegisterAll([i \in 1..Cardinality(S) |-> TemplatePool[Ascending(S)[i]]],
                  [tools |-> <<>>, schemas |-> <<>>, maps |-> <<>>]) :
        S \in {X \in SUBSET (1..Len(TemplatePool)) :
                  Cardinality(X) >= 1 /\ Cardinality(X) <= MaxTools} }

TargetParameterNames ==
    {KubeConfigTargetParameterName, StrCluster, StrTargets, StrConfigurationContexts}

\* The invocations of a run.
Invocations == 1..NumInvocations

NoReturn == Return(<<>>, NoError)

\* The target-list handler and the elicitation bridge are not invoked.
HandlerUnused ==
    /\ provider = [targets |-> <<>>, err |-> NoError]
    /\ hpc = [i \in Invocations |-> "idle"]
    /\ hlocal = [i \in Invocations |-> [targets |-> <<>>, err |-> NoError]]
    /\ hresult = [i \in Invocations |-> NoReturn]

NoSession == [capable |-> FALSE, requests |-> <<>>, response |-> NoReturn, answered |-> FALSE]

ElicitUnused ==
    /\ ctx = [i \in Invocations |-> [session |-> "absent", cancelled |-> FALSE]]
    /\ session = [i \in Invocations |-> NoSession]
    /\ epc = [i \in Invocations |-> "idle"]
    /\ sret = [i \in Invocations |-> NoReturn]
    /\ eret = [i \in Invocations |-> NoReturn]

\* The normalizer is not called.
NormalizeUnused ==
    /\ nval = Null
    /\ nres = <<>>

NoCall ==
    [op |-> "none", kept |-> FALSE, arg |-> ToolOf(TemplatePool[1], NilPtr),
     ret |-> ToolOf(TemplatePool[1], NilPtr), schemas |-> <<>>, maps |-> <<>>,
     muts |-> <<>>]

MutInit ==
    /\ \E r \in Registries :
          /\ tools = r.tools
          /\ schemas = r.schemas
          /\ maps = r.maps
    /\ \E name \in TargetParameterNames, multi \in BOOLEAN :
          cfg = [defaultTarget |-> StrDefaultCluster,
                 targetParameterName |-> name,
                 isMultiCluster |-> multi]
    /\ phase = "config"
    /\ calls = 0
    /\ lastCall = NoCall
    /\ registered = <<>>
    /\ catalog = <<>>
    /\ HandlerUnused
    /\ ElicitUnused
    /\ NormalizeUnused

(***************************************************************************)
(* Actions of the registration pipeline.                                   *)
(***************************************************************************)
\* One call mutator(tools[i]) of a single mutator.  The caller either keeps the
\* result in place of the tool (keep) or drops it, as the tests do with tm(tool).
CallMutator(mut, i, keep) ==
    /\ phase = "config"
    /\ calls < MaxCalls
    /\ LET r == ApplyMutator(mut, [tool |-> tools[i], schemas |-> schemas, maps |-> maps])
       IN  /\ tools' = IF keep THEN [tools EXCEPT ![i] = r.tool] ELSE tools
           /\ schemas' = r.schemas
           /\ maps' = r.maps
           /\ lastCall' = [op |-> mut.kind, kept |-> keep, arg |-> tools[i], ret |-> r.tool,
                           schemas |-> schemas, maps |-> maps, muts |-> <<mut>>]
    /\ calls' = calls + 1
    /\ UNCHANGED <<cfg, phase, registered, catalog, handlerVars, elicitVars, normVars>>

CallWithTargetParameter ==
    \E i \in 1..Len(tools), keep \in BOOLEAN :
        CallMutator(MutTargetParameter(cfg.defaultTarget, cfg.targetParameterName,
                                       cfg.isMultiCluster), i, keep)

CallWithTargetListTool ==
    \E i \in 1..Len(tools), keep \in BOOLEAN :
        CallMutator(MutTargetListTool(cfg.defaultTarget, cfg.targetParameterName), i, keep)

\* The mutator pipeline over a whole registry, tool by tool, on one pair of heaps.
RECURSIVE MutateAll(_, _, _)
MutateAll(mutators, todo, r) ==
    IF todo = <<>> THEN r
    ELSE LET m == ComposeMutators(mutators,
                                  [tool |-> Head(todo), schemas |-> r.schemas, maps |-> r.maps])
         IN  MutateAll(mutators, Tail(todo),
                       [tools |-> Append(r.tools, m.tool),
                        schemas |-> m.schemas, maps |-> m.maps])

\* The tools of a registry a filter lets through, in order.
FilterAll(filters, ts) ==
    LET Keep(tool) == CompositeFilter(filters, tool) IN SelectSeq(ts, Keep)

\* Startup: every registered tool goes through the composed mutators, then the
\* filter decides what the catalog exposes.
Startup ==
    /\ phase = "config"
    /\ \E mutators \in
            { << MutTargetListTool(cfg.defaultTarget, cfg.targetParameterName),
                 MutTargetParameter(cfg.defaultTarget, cfg.targetParameterName,
                                    cfg.isMultiCluster) >>,
              << MutTargetParameter(cfg.defaultTarget, cfg.targetParameterName,
                                    cfg.isMultiCluster),
                 MutTargetListTool(cfg.defaultTarget, cfg.targetParameterName) >> },
          other \in BOOLEAN :
          LET r == MutateAll(mutators, tools,
                             [tools |-> <<>>, schemas |-> schemas, maps |-> maps])
          IN  /\ tools' = r.tools
              /\ schemas' = r.schemas
              /\ maps' = r.maps
              /\ catalog' = FilterAll(<<FilterTargetListTool(cfg.targetParameterName,
                                                             cfg.isMultiCluster, other)>>,
                                      r.tools)
    /\ registered' = tools
    /\ phase' = "serving"
    /\ UNCHANGED <<cfg, calls, lastCall, handlerVars, elicitVars, normVars>>

\* One call ComposeMutators(mutators...)(tools[i]), on a registry as declared.  The
\* mutators are up to MaxCompose of the two of the configuration and a
\* target-parameter mutator with another default.
CallComposeMutators ==
    LET ComposableMutators ==
            { MutTargetListTool(cfg.defaultTarget, cfg.targetParameterName),
              MutTargetParameter(cfg.defaultTarget, cfg.targetParameterName,
                                 cfg.isMultiCluster),
              MutTargetParameter(TargetA, cfg.targetParameterName, cfg.isMultiCluster) }
        MutatorLists == UNION {[1..n -> ComposableMutators] : n \in 0..MaxCompose}
    IN  /\ phase = "config"
        /\ calls = 0
        /\ \E i \in 1..Len(tools), keep \in BOOLEAN, mutators \in MutatorLists :
              LET r == ComposeMutators(mutators,
                                       [tool |-> tools[i], schemas |-> schemas,
                                        maps |-> maps])
              IN  /\ tools' = IF keep THEN [tools EXCEPT ![i] = r.tool] ELSE tools
                  /\ schemas' = r.schemas
                  /\ maps' = r.maps
                  /\ lastCall' = [op |-> "ComposeMutators", kept |-> keep,
                                  arg |-> tools[i], ret |-> r.tool, schemas |-> schemas,
                                  maps |-> maps, muts |-> mutators]
        /\ calls' = calls + 1
        /\ UNCHANGED <<cfg, phase, registered, catalog, handlerVars, elicitVars, normVars>>

ComposeNext == CallComposeMutators

SpecCompose == MutInit /\ [][ComposeNext]_vars

MutNext ==
    \/ CallWithTargetParameter
    \/ CallWithTargetListTool
    \/ Startup

Spec == MutInit /\ [][MutNext]_vars

(***************************************************************************)
(* Invocations of the generated target-list handler.                       *)
(***************************************************************************)
TargetNames == {TargetA, TargetUpperB, TargetAb}

\* The target lists a provider may return: up to MaxTargets names, in any order.
TargetLists == UNION {[1..n -> TargetNames] : n \in 0..MaxTargets}

ProviderErrors == {NoError, NewError("provider", StrUnauthorized)}

\* The registration pipeline has nothing to do.
MutUnused ==
    /\ tools = <<>>
    /\ schemas = <<>>
    /\ maps = <<>>
    /\ cfg = [defaultTarget |-> <<>>, targetParameterName |-> <<>>, isMultiCluster |-> FALSE]
    /\ phase = "serving"
    /\ calls = 0
    /\ lastCall = NoCall
    /\ registered = <<>>
    /\ catalog = <<>>

\* A registry holding the placeholder tool, a provider and its configuration.
HandlerInit ==
    /\ LET r == RegisterAll(<<TemplatePool[1]>>,
                            [tools |-> <<>>, schemas |-> <<>>, maps |-> <<>>])
       IN  /\ tools = r.tools
           /\ schemas = r.schemas
           /\ maps = r.maps
    /\ \E name \in {StrCluster, <<>>}, default \in {TargetA, <<>>} :
          cfg = [defaultTarget |-> default, targetParameterName |-> name,
                 isMultiCluster |-> TRUE]
    /\ phase = "config"
    /\ calls = 0
    /\ lastCall = NoCall
    /\ registered = <<>>
    /\ catalog = <<>>
    /\ \E ts \in TargetLists, e \in ProviderErrors :
          provider = [targets |-> ts, err |-> e]
    /\ hpc = [i \in Invocations |-> "idle"]
    /\ hlocal = [i \in Invocations |-> [targets |-> <<>>, err |-> NoError]]
    /\ hresult = [i \in Invocations |-> NoReturn]
    /\ ElicitUnused
    /\ NormalizeUnused

\* The generated handlers of the registry.
GeneratedHandlers ==
    {tools[k].Handler : k \in {j \in 1..Len(tools) :
                                  tools[j].Handler.kind = "createTargetListHandler"}}

\* targets, err := p.GetTargets(params.Context)
HandlerGetTargets(i) ==
    /\ phase = "serving"
    /\ GeneratedHandlers # {}
    /\ hpc[i] = "idle"
    /\ hlocal' = [hlocal EXCEPT ![i] = [targets |-> provider.targets, err |-> provider.err]]
    /\ hpc' = [hpc EXCEPT ![i] = "got"]
    /\ UNCHANGED <<mutVars, provider, hresult, elicitVars, normVars>>

\* The rest of the handler, to its return.  The slice GetTargets returned is the
\* provider's own (mockProvider returns m.targets), so what the handler leaves in
\* it is what the provider holds afterwards.
HandlerReturn(i) ==
    /\ hpc[i] = "got"
    /\ \E h \in GeneratedHandlers :
          hresult' = [hresult EXCEPT ![i] =
                         TargetListHandler(h.targetParameterName, h.defaultTarget,
                                           hlocal[i].targets, hlocal[i].err)]
    /\ provider' = IF hlocal[i].err = NoError /\ Len(hlocal[i].targets) > 0
                   THEN [provider EXCEPT !.targets = SortedCopy(hlocal[i].targets).targets]
                   ELSE provider
    /\ hpc' = [hpc EXCEPT ![i] = "done"]
    /\ UNCHANGED <<mutVars, hlocal, elicitVars, normVars>>

HandlerNext ==
    \/ Startup
    \/ \E i \in Invocations : HandlerGetTargets(i)
    \/ \E i \in Invocations : HandlerReturn(i)

SpecHandler == HandlerInit /\ [][HandlerNext]_vars

(***************************************************************************)
(* Invocations that call Elicit, each with its own context and session.    *)
(***************************************************************************)
\* What ctx.Value(MCPSessionContextKey) holds: nothing, a value of another type,
\* a nil *mcp.ServerSession, or a live session.
SessionValues == {"absent", "wrongType", "nilSession", "live"}

\* What a client answers to an elicitation request.
ElicitResult(action, content) == [Action |-> action, Content |-> content]

ClientResults ==
    { ElicitResult("accept", MapPut(EmptyMap, StrName, StrTestValue)),
      ElicitResult("decline", EmptyMap),
      ElicitResult("cancel", EmptyMap) }

\* Failures of the round trip that are not the missing capability: the connection
\* is lost, or the client's handler fails with a text of its own.
DispatchErrors ==
    { NewError("transport", StrConnectionClosed),
      NewError("client", StrHostRefuses) }

\* What session.Elicit returns when the client declared no elicitation capability.
UnsupportedByClient == NewError("session", ErrElicitationNotSupportedMsg)

\* What session.Elicit returns when its context is cancelled.
CancelledCall ==
    [id |-> "errors.joinError", msg |-> StrContextCanceled, wraps |-> <<ContextCanceled.id>>]

ElicitInit ==
    /\ MutUnused
    /\ HandlerUnused
    /\ ctx \in [Invocations -> [session : SessionValues, cancelled : {FALSE}]]
    /\ session \in [Invocations -> [capable : BOOLEAN, requests : {<<>>},
                                    response : {NoReturn}, answered : {FALSE}]]
    /\ \A i \in Invocations : ctx[i].session # "live" => ~session[i].capable
    /\ epc = [i \in Invocations |-> "idle"]
    /\ sret = [i \in Invocations |-> NoReturn]
    /\ eret = [i \in Invocations |-> NoReturn]
    /\ NormalizeUnused

\* Elicit up to the call of session.Elicit: without a session it returns at once,
\* with one it dispatches the request and blocks.
ElicitStart(i) ==
    /\ epc[i] = "idle"
    /\ IF ~HasSession(ctx[i].session)
       THEN /\ eret' = [eret EXCEPT ![i] = Return(<<>>, NoSessionError)]
            /\ epc' = [epc EXCEPT ![i] = "done"]
            /\ UNCHANGED session
       ELSE /\ session' = [session EXCEPT
                              ![i].requests = Append(@, [Message |-> StrPleaseConfirm,
                                                         context |-> SessionCallContext]),
                              ![i].response = NoReturn,
                              ![i].answered = FALSE]
            /\ eret' = [eret EXCEPT ![i] = NoReturn]
            /\ epc' = [epc EXCEPT ![i] = "waiting"]
    /\ UNCHANGED <<mutVars, handlerVars, normVars, ctx, sret>>

\* The client, or the transport, answers the request.
ClientRespond(i) ==
    /\ epc[i] = "waiting"
    /\ session[i].capable
    /\ ~session[i].answered
    /\ \E r \in {Return(<<x>>, NoError) : x \in ClientResults}
                   \cup {Return(<<>>, e) : e \in DispatchErrors} :
          session' = [session EXCEPT ![i].response = r, ![i].answered = TRUE]
    /\ UNCHANGED <<mutVars, handlerVars, normVars, ctx, epc, sret, eret>>

\* The invocation is cancelled.
Cancel(i) ==
    /\ ~ctx[i].cancelled
    /\ epc[i] \in {"idle", "waiting"}
    /\ ctx' = [ctx EXCEPT ![i].cancelled = TRUE]
    /\ UNCHANGED <<mutVars, handlerVars, normVars, session, epc, sret, eret>>

\* session.Elicit returns: at once for a client without the capability, with the
\* context's error once the context it was given is cancelled, and otherwise with
\* the answer.
SessionReturn(i) ==
    /\ epc[i] = "waiting"
    /\ LET call == session[i].requests[Len(session[i].requests)]
       IN  IF ~session[i].capable
           THEN sret' = [sret EXCEPT ![i] = Return(<<>>, UnsupportedByClient)]
           ELSE IF call.context = "ctx" /\ ctx[i].cancelled
           THEN sret' = [sret EXCEPT ![i] = Return(<<>>, CancelledCall)]
           ELSE /\ session[i].answered
                /\ sret' = [sret EXCEPT ![i] = session[i].response]
    /\ session' = [session EXCEPT ![i].response = NoReturn]
    /\ epc' = [epc EXCEPT ![i] = "returned"]
    /\ UNCHANGED <<mutVars, handlerVars, normVars, ctx, eret>>

\* Elicit dispatching the request once more when session.Elicit failed.
ElicitFinish_Retry(i) ==
    /\ epc[i] = "returned"
    /\ IF sret[i].err # NoError /\ Len(session[i].requests) = 1
       THEN /\ session' = [session EXCEPT
                              ![i].requests = Append(@, [Message |-> StrPleaseConfirm,
                                                         context |-> SessionCallContext]),
                              ![i].answered = FALSE]
            /\ epc' = [epc EXCEPT ![i] = "waiting"]
            /\ UNCHANGED eret
       ELSE /\ eret' = [eret EXCEPT ![i] = ElicitReturn(sret[i].result, sret[i].err)]
            /\ epc' = [epc EXCEPT ![i] = "done"]
            /\ UNCHANGED session
    /\ UNCHANGED <<mutVars, handlerVars, normVars, ctx, sret>>

\* Elicit from the return of session.Elicit to its own return.
ElicitFinish(i) ==
    /\ epc[i] = "returned"
    /\ eret' = [eret EXCEPT ![i] = ElicitReturn(sret[i].result, sret[i].err)]
    /\ epc' = [epc EXCEPT ![i] = "done"]
    /\ UNCHANGED <<mutVars, handlerVars, normVars, ctx, session, sret>>

ElicitNext ==
    \/ \E i \in Invocations : ElicitStart(i)
    \/ \E i \in Invocations : ClientRespond(i)
    \/ \E i \in Invocations : Cancel(i)
    \/ \E i \in Invocations : SessionReturn(i)
    \/ \E i \in Invocations : ElicitFinish(i)

SpecElicit == ElicitInit /\ [][ElicitNext]_vars

\* The Go scheduler runs a goroutine that can run: a session call that can return
\* does, and Elicit then runs to its return.
SpecElicitFair ==
    /\ ElicitInit
    /\ [][ElicitNext]_vars
    /\ \A i \in Invocations : WF_vars(SessionReturn(i)) /\ WF_vars(ElicitFinish(i))

(***************************************************************************)
(* Serving: after startup, each invocation runs either the generated       *)
(* target-list handler or a handler that elicits, all concurrently.        *)
(***************************************************************************)
ServingInit ==
    /\ LET r == RegisterAll(<<TemplatePool[1], TemplatePool[4]>>,
                            [tools |-> <<>>, schemas |-> <<>>, maps |-> <<>>])
       IN  /\ tools = r.tools
           /\ schemas = r.schemas
           /\ maps = r.maps
    /\ cfg = [defaultTarget |-> TargetA, targetParameterName |-> StrCluster,
              isMultiCluster |-> TRUE]
    /\ phase = "config"
    /\ calls = 0
    /\ lastCall = NoCall
    /\ registered = <<>>
    /\ catalog = <<>>
    /\ \E ts \in TargetLists, e \in ProviderErrors :
          /\ Len(ts) = MaxTargets
          /\ e # NoError => ts = [k \in 1..MaxTargets |-> TargetA]
          /\ provider = [targets |-> ts, err |-> e]
    /\ hpc = [i \in Invocations |-> "idle"]
    /\ hlocal = [i \in Invocations |-> [targets |-> <<>>, err |-> NoError]]
    /\ hresult = [i \in Invocations |-> NoReturn]
    /\ ctx = [i \in Invocations |-> [session |-> "live", cancelled |-> FALSE]]
    /\ session = [i \in Invocations |->
                     [capable |-> TRUE, requests |-> <<>>, response |-> NoReturn,
                      answered |-> FALSE]]
    /\ epc = [i \in Invocations |-> "idle"]
    /\ sret = [i \in Invocations |-> NoReturn]
    /\ eret = [i \in Invocations |-> NoReturn]
    /\ NormalizeUnused

\* Invocation i is a call of the target-list tool: its handler starts.
ServeTargetList(i) ==
    /\ epc[i] = "idle"
    /\ HandlerGetTargets(i)

\* Invocation i is a call of a tool whose handler elicits.
ServeEliciting(i) ==
    /\ phase = "serving"
    /\ hpc[i] = "idle"
    /\ ElicitStart(i)

ServingNext ==
    \/ Startup
    \/ \E i \in Invocations : ServeTargetList(i)
    \/ \E i \in Invocations : HandlerReturn(i)
    \/ \E i \in Invocations : ServeEliciting(i)
    \/ \E i \in Invocations : ClientRespond(i)
    \/ \E i \in Invocations : SessionReturn(i)
    \/ \E i \in Invocations : ElicitFinish(i)

SpecServing == ServingInit /\ [][ServingNext]_vars

(***************************************************************************)
(* Calls of the output normalizer on result trees.                         *)
(***************************************************************************)
Str(text) == Scalar("str", text)

\* The metadata mappings: with or without managedFields; annotations absent, a
\* scalar, or a mapping with or without the last-applied entry and another entry,
\* in either order; labels that reuse the bookkeeping keys one level below.
Metadatas ==
    LET AnnotationChoices ==
            { <<>>,
              <<Pair(KeyAnnotations, Str("not-a-mapping"))>>,
              <<Pair(KeyAnnotations, MapOf(<<>>))>>,
              <<Pair(KeyAnnotations, MapOf(<<Pair(KeyLastApplied, Str("{}"))>>))>>,
              <<Pair(KeyAnnotations,
                     MapOf(<<Pair("custom-annotation", Str("keep-me"))>>))>>,
              <<Pair(KeyAnnotations,
                     MapOf(<<Pair(KeyLastApplied, Str("{}")),
                             Pair("custom-annotation", Str("keep-me"))>>))>>,
              <<Pair(KeyAnnotations,
                     MapOf(<<Pair("custom-annotation", Str("keep-me")),
                             Pair(KeyLastApplied, Str("{}"))>>))>> }
        ManagedFieldsChoices ==
            { <<>>, <<Pair(KeyManagedFields, SeqOf(<<Str("field-manager-data")>>))>> }
        Labels ==
            MapOf(<<Pair("app", Str("nginx")),
                    Pair(KeyManagedFields, Str("a-label")),
                    Pair(KeyLastApplied, Str("a-label"))>>)
    IN  { MapOf(<<Pair("name", Str("test-pod"))>> \o mf \o <<Pair("labels", Labels)>>
                    \o ann) :
              mf \in ManagedFieldsChoices, ann \in AnnotationChoices }
        \cup
        { MapOf(ann \o mf) : mf \in ManagedFieldsChoices, ann \in AnnotationChoices }

\* A resource with the metadata; its spec holds a resource shape of its own, below
\* the resource's top level.
Resource(meta) ==
    LET PodSpec ==
            MapOf(<<Pair("template",
                         MapOf(<<Pair(KeyMetadata,
                                      MapOf(<<Pair(KeyManagedFields, Str("nested")),
                                              Pair(KeyAnnotations,
                                                   MapOf(<<Pair(KeyLastApplied,
                                                                Str("{}"))>>))>>))>>))>>)
    IN  MapOf(<<Pair("kind", Str("Pod")), Pair(KeyMetadata, meta), Pair("spec", PodSpec),
                Pair("status", MapOf(<<Pair("phase", Str("Running"))>>))>>)

DirtyMetadata ==
    MapOf(<<Pair("name", Str("pod-1")),
            Pair(KeyManagedFields, SeqOf(<<Str("data")>>)),
            Pair(KeyAnnotations, MapOf(<<Pair(KeyLastApplied, Str("{}"))>>))>>)

DirtyMetadataWithCustom ==
    MapOf(<<Pair("name", Str("pod-2")),
            Pair(KeyManagedFields, SeqOf(<<Str("data")>>)),
            Pair(KeyAnnotations, MapOf(<<Pair(KeyLastApplied, Str("{}")),
                                         Pair("custom-annotation", Str("keep-me"))>>))>>)

\* Values that are no resource: null, scalars, mappings without a metadata mapping.
NonResources ==
    { Null, Str("a string"), Scalar("num", "42"), Scalar("bool", "true"),
      MapOf(<<>>),
      MapOf(<<Pair("data", Str("no-metadata-here"))>>),
      MapOf(<<Pair(KeyMetadata, Str("not-a-mapping")),
              Pair(KeyManagedFields, Str("top-level"))>>),
      MapOf(<<Pair(KeyItems, SeqOf(<<Resource(DirtyMetadata)>>))>>) }

\* What an items sequence or a top-level sequence may hold.
Elements ==
    { Resource(MapOf(<<Pair("name", Str("clean-pod"))>>)),
      Resource(DirtyMetadata),
      Resource(DirtyMetadataWithCustom),
      Str("a string"),
      MapOf(<<Pair("data", Str("no-metadata-here"))>>),
      SeqOf(<<Resource(DirtyMetadata)>>),
      MapOf(<<Pair("kind", Str("PodList")), Pair(KeyMetadata, DirtyMetadata),
              Pair(KeyItems, SeqOf(<<Resource(DirtyMetadata), Str("a string")>>))>>) }

ElementLists == UNION {[1..n -> Elements] : n \in 0..MaxItems}

Lists ==
    { MapOf(<<Pair("kind", Str("PodList")), Pair(KeyMetadata, meta),
              Pair(KeyItems, SeqOf(es))>>) :
          meta \in {MapOf(<<>>), DirtyMetadata}, es \in ElementLists }

\* The result trees handed to the normalizer.
ResultTrees ==
    NonResources
        \cup {Resource(meta) : meta \in Metadatas}
        \cup {MapOf(<<Pair(KeyMetadata, DirtyMetadata), Pair(KeyItems, Str("not-a-sequence"))>>)}
        \cup Lists
        \cup {SeqOf(es) : es \in ElementLists}

NormalizeInit ==
    /\ MutUnused
    /\ HandlerUnused
    /\ ElicitUnused
    /\ nval \in ResultTrees
    /\ nres = <<>>

\* PruneForStructuredOutput is called on the tree, and then on what it returned.
Normalize ==
    /\ nres = <<>>
    /\ nres' = <<PruneForStructuredOutput(nval)>>
    /\ UNCHANGED <<mutVars, handlerVars, elicitVars, nval>>

NormalizeAgain ==
    /\ Len(nres) = 1
    /\ nres' = Append(nres, PruneForStructuredOutput(nres[1]))
    /\ UNCHANGED <<mutVars, handlerVars, elicitVars, nval>>

NormalizeNext ==
    \/ Normalize
    \/ NormalizeAgain

SpecNormalize == NormalizeInit /\ [][NormalizeNext]_vars

(***************************************************************************)
(* What a caller can observe of a tool: the value itself and everything    *)
(* its InputSchema pointer reaches (the schema, its Properties map and the *)
(* property schemas in it).  An absent part is the empty sequence.         *)
(***************************************************************************)
DeepProperties(mapAddr, sch, mp) ==
    IF mapAddr = NilPtr THEN <<>>
    ELSE << [k \in DOMAIN mp[mapAddr] |->
                [Type |-> sch[mp[mapAddr][k]].Type,
                 Description |-> sch[mp[mapAddr][k]].Description,
                 Properties |-> sch[mp[mapAddr][k]].Properties]] >>

DeepSchema(addr, sch, mp) ==
    IF addr = NilPtr THEN <<>>
    ELSE << [Type |-> sch[addr].Type,
             Description |-> sch[addr].Description,
             Properties |-> DeepProperties(sch[addr].Properties, sch, mp)] >>

DeepTool(tool, sch, mp) ==
    [tool |-> tool, schema |-> DeepSchema(tool.InputSchema, sch, mp)]

Range(seq) == {seq[i] : i \in 1..Len(seq)}

Names(ts) == [i \in 1..Len(ts) |-> ts[i].Name]

Distinct(seq) == \A i, j \in 1..Len(seq) : i # j => seq[i] # seq[j]

\* A single mutator call has just returned and nothing has run since.
AfterCall(op) == phase = "config" /\ lastCall.op = op

(***************************************************************************)
(* C1.  Claimed: a mutator call leaves the tool value the caller passed,   *)
(* with the schema and parameter map it refers to, as it was.              *)
(***************************************************************************)
\* C1 as claimed: after any single mutator call the caller's tool, schema and
\* parameter map are what they were before the call.
C1_ArgumentUntouched ==
    (phase = "config" /\ lastCall.op # "none") =>
        DeepTool(lastCall.arg, schemas, maps)
            = DeepTool(lastCall.arg, lastCall.schemas, lastCall.maps)

\* The call WithTargetParameter writes through the caller's schema pointer.
C1_WritesThrough ==
    /\ AfterCall("WithTargetParameter")
    /\ IsClusterAware(lastCall.arg)
    /\ cfg.isMultiCluster
    /\ lastCall.arg.InputSchema # NilPtr

\* C1 amended: WithTargetListTool never changes what the caller passed.
\* WithTargetParameter leaves the caller's tool value alone, and leaves the schema
\* and parameter map alone unless the tool is cluster-aware, the topology is
\* multi-target and the tool has a schema: then the caller's schema gets its
\* parameter map (created if absent) with the entry targetParameterName set to the
\* target property, and nothing else changes.
C1_ArgumentFrame ==
    (phase = "config" /\ lastCall.op # "none") =>
        LET before == DeepTool(lastCall.arg, lastCall.schemas, lastCall.maps)
            after  == DeepTool(lastCall.arg, schemas, maps)
            old    == IF before.schema[1].Properties = <<>> THEN EmptyMap
                      ELSE before.schema[1].Properties[1]
        IN  IF ~C1_WritesThrough
            THEN after = before
            ELSE /\ after.tool = before.tool
                 /\ after.schema[1].Type = before.schema[1].Type
                 /\ after.schema[1].Description = before.schema[1].Description
                 /\ after.schema[1].Properties =
                        << MapPut(old, cfg.targetParameterName,
                                  createTargetProperty(cfg.defaultTarget,
                                                       cfg.targetParameterName)) >>

\* C1 witness: a dropped result whose call changed the caller's existing map.
C1_Witness ==
    /\ C1_WritesThrough
    /\ ~lastCall.kept
    /\ lastCall.schemas[lastCall.arg.InputSchema].Properties # NilPtr
    /\ DeepTool(lastCall.arg, schemas, maps)
           # DeepTool(lastCall.arg, lastCall.schemas, lastCall.maps)

(***************************************************************************)
(* C2.  Names after the startup pipeline.                                  *)
(***************************************************************************)
\* C2 as claimed: a registry with pairwise distinct names still has pairwise
\* distinct names after every tool has gone through the mutator pipeline.
C2_NoDuplicateNames ==
    (phase = "serving" /\ Distinct(Names(registered))) => Distinct(Names(tools))

(***************************************************************************)
(* C8, C9.  ShouldIncludeTargetListTool, seen through the catalog.         *)
(***************************************************************************)
InCatalog(tool) == tool \in Range(catalog)

GenericListName == cfg.targetParameterName \o ListSuffix

\* C8: under multi-target topology a flagged legacy tool is exposed only when the
\* parameter name is "context", a flagged "<targetParameterName>_list" only when it
\* is not, and the catalog never holds both.
C8_LegacyXorGeneric ==
    (phase = "serving" /\ cfg.isMultiCluster) =>
        /\ \A t \in Range(catalog) :
              IsTargetListProvider(t) =>
                 /\ t.Name = LegacyContextsListName
                       => cfg.targetParameterName = KubeConfigTargetParameterName
                 /\ t.Name = GenericListName
                       => cfg.targetParameterName # KubeConfigTargetParameterName
        /\ ~ \E t, u \in Range(catalog) :
                /\ IsTargetListProvider(t) /\ t.Name = LegacyContextsListName
                /\ IsTargetListProvider(u) /\ u.Name = GenericListName

\* C8 witness: both kinds went through the filter and exactly one came out.
C8_Witness ==
    /\ phase = "serving" /\ cfg.isMultiCluster
    /\ \E t, u \in Range(tools) :
          /\ IsTargetListProvider(t) /\ t.Name = LegacyContextsListName
          /\ IsTargetListProvider(u) /\ u.Name = GenericListName
          /\ InCatalog(t) # InCatalog(u)

\* C9: a tool not flagged as target-list provider is always exposed, and a flagged
\* one never is under single-target topology.
C9_UnflaggedPassFlaggedSingleFail ==
    phase = "serving" =>
        \A t \in Range(tools) :
            /\ ~IsTargetListProvider(t) => InCatalog(t)
            /\ (IsTargetListProvider(t) /\ ~cfg.isMultiCluster) => ~InCatalog(t)

\* C9 witness: a single-target startup with a flagged and an unflagged tool.
C9_Witness ==
    /\ phase = "serving" /\ ~cfg.isMultiCluster
    /\ \E t, u \in Range(tools) :
          /\ IsTargetListProvider(t) /\ ~InCatalog(t)
          /\ ~IsTargetListProvider(u) /\ InCatalog(u)

(***************************************************************************)
(* C10.  WithTargetParameter as the identity.                              *)
(***************************************************************************)
\* C10: for a tool that is not cluster-aware, or under single-target topology,
\* WithTargetParameter returns the tool it was given (same name, description,
\* schema pointer, annotations, handler) and leaves every schema and map as it was.
C10_IdentityWhenNotApplicable ==
    (AfterCall("WithTargetParameter")
        /\ (~IsClusterAware(lastCall.arg) \/ ~cfg.isMultiCluster)) =>
        /\ lastCall.ret = lastCall.arg
        /\ schemas = lastCall.schemas
        /\ maps = lastCall.maps

\* C10 witnesses: the identity on a tool without schema under single-target
\* topology, having seen a non-cluster-aware tool under multi-target topology too.
C10_Witness ==
    /\ AfterCall("WithTargetParameter")
    /\ \/ /\ ~cfg.isMultiCluster
          /\ IsClusterAware(lastCall.arg)
          /\ lastCall.arg.InputSchema = NilPtr
       \/ /\ cfg.isMultiCluster
          /\ ~IsClusterAware(lastCall.arg)
          /\ lastCall.arg.InputSchema # NilPtr
          /\ schemas[lastCall.arg.InputSchema].Properties = NilPtr

(***************************************************************************)
(* C3, C4, C5.  sessionElicitor.Elicit.                                    *)
(***************************************************************************)
\* The context of invocation i carries no live session.
NoLiveSession(i) == ctx[i].session \in {"absent", "wrongType", "nilSession"}

\* C3 as claimed: with a session, a failed Elicit matches the sentinel exactly when
\* session.Elicit reported the missing capability, and every other failure of the
\* dispatch is returned as it came, not matching the sentinel.
C3_SentinelIffUnsupported ==
    \A i \in Invocations :
        (epc[i] = "done" /\ ~NoLiveSession(i) /\ eret[i].err # NoError) =>
            /\ ErrorsIs(eret[i].err, ErrElicitationNotSupported)
                   <=> sret[i].err = UnsupportedByClient
            /\ sret[i].err # UnsupportedByClient => eret[i].err = sret[i].err

\* C4: without a live session in the context Elicit returns at once, with no result
\* and an error that is not the sentinel, and no request reaches any session.
C4_NoSessionFailsFast ==
    /\ \A i \in Invocations :
          NoLiveSession(i) =>
              /\ epc[i] \in {"idle", "done"}
              /\ epc[i] = "done" =>
                    /\ eret[i].result = <<>>
                    /\ eret[i].err # NoError
                    /\ eret[i].err.msg = NoSessionMsg
                    /\ ~ErrorsIs(eret[i].err, ErrElicitationNotSupported)
    /\ \A j \in Invocations :
          session[j].requests # <<>> => ctx[j].session = "live" /\ epc[j] # "idle"

\* C4 witness: Elicit has returned for a context holding a nil session pointer,
\* while another invocation's Elicit has dispatched to its live session.
C4_Witness ==
    \E i, j \in Invocations :
        /\ ctx[i].session = "nilSession" /\ epc[i] = "done"
        /\ ctx[j].session = "live" /\ epc[j] = "waiting"

\* C5: when the invocation is cancelled while Elicit waits for the client's answer,
\* Elicit eventually returns an error that is context.Canceled.
C5_CancelEndsWait ==
    \A i \in Invocations :
        (epc[i] = "waiting" /\ session[i].capable /\ ctx[i].cancelled)
            ~> (epc[i] = "done" /\ ErrorsIs(eret[i].err, ContextCanceled))

\* C5 witness: Elicit returned the cancellation for a client that can elicit.
C5_Witness ==
    \E i \in Invocations :
        /\ epc[i] = "done" /\ session[i].capable /\ ctx[i].cancelled
        /\ eret[i].result = <<>>
        /\ ErrorsIs(eret[i].err, ContextCanceled)

(***************************************************************************)
(* C6, C7.  The generated target-list handler.                             *)
(***************************************************************************)
\* FailedToFindText is the string "failed to find any targets"
FailedToFindText ==
    <<"f","a","i","l","e","d"," ","t","o"," ","f","i","n","d"," ","a","n","y"," ","t","a","r",
      "g","e","t","s">>

\* SeparatorLine is the string "---------"
SeparatorLine ==
    <<"-","-","-","-","-","-","-","-","-">>


\* C6: whatever GetTargets returned, the handler returns a result and a nil error; on
\* a provider error the result's error text contains "failed to find any targets"
\* and the provider's error text, and wraps the provider's error.
C6_AlwaysAResult ==
    \A i \in Invocations :
        hpc[i] = "done" =>
            /\ hresult[i].result # <<>>
            /\ hresult[i].err = NoError
            /\ hlocal[i].err # NoError =>
                  LET e == hresult[i].result[1].Error
                  IN  /\ e # NoError
                      /\ Contains(e.msg, FailedToFindText)
                      /\ Contains(e.msg, hlocal[i].err.msg)
                      /\ ErrorsIs(e, hlocal[i].err)

\* C6 witness: the handler has returned for a provider that failed.
C6_Witness ==
    \E i \in Invocations :
        /\ hpc[i] = "done"
        /\ hlocal[i].err # NoError
        /\ hresult[i].result # <<>>

\* The lines of a text: the pieces between its newlines.
RECURSIVE SplitLines(_)
SplitLines(s) ==
    LET nl == {k \in 1..Len(s) : s[k] = "\n"}
    IN  IF nl = {} THEN <<s>>
        ELSE <<SubSeq(s, 1, Min(nl) - 1)>> \o SplitLines(SubSeq(s, Min(nl) + 1, Len(s)))

Count(seq, x) == Cardinality({k \in 1..Len(seq) : seq[k] = x})

\* p holds the elements of q, each as often, in ascending byte order.
AscendingOrderOf(p, q) ==
    /\ Len(p) = Len(q)
    /\ \A x \in Range(q) : Count(p, x) = Count(q, x)
    /\ \A k \in 1..(Len(p) - 1) : ~StrLess(p[k + 1], p[k])

\* C7: without a provider error, an empty target list gives "No <name>s available";
\* a non-empty one gives a report whose header states the number of targets, with
\* one line per target between the separators, in ascending byte order whatever the
\* provider's order, each starting with * when the target is the default target and
\* with a space otherwise.
C7_ReportOfTargets ==
    \A i \in Invocations :
        (hpc[i] = "done" /\ hlocal[i].err = NoError) =>
            LET text    == hresult[i].result[1].Content
                targets == hlocal[i].targets
                n       == Len(targets)
                name    == cfg.targetParameterName
                lines   == SplitLines(text)
            IN  IF n = 0
                THEN text = NoTargetsPre \o name \o NoTargetsPost
                ELSE /\ Len(lines) = n + 10
                     /\ lines[1] = RepAvailable \o name \o RepTotalPre \o Itoa(n)
                                       \o RepTotalMid \o cfg.defaultTarget \o <<")", ":">>
                     /\ lines[7] = SeparatorLine
                     /\ lines[8 + n] = SeparatorLine
                     /\ \E p \in [1..n -> Range(targets)] :
                           /\ AscendingOrderOf(p, targets)
                           /\ \A k \in 1..n :
                                 /\ lines[7 + k][1] = "*" <=> p[k] = cfg.defaultTarget
                                 /\ lines[7 + k][1] \in {"*", " "}
                                 /\ SubSeq(lines[7 + k], 2, Len(lines[7 + k]))
                                        = <<" ">> \o p[k]

\* C7 witness: a report for targets the provider returned out of order, the default
\* target among them.
C7_Witness ==
    \E i \in Invocations :
        /\ hpc[i] = "done" /\ hlocal[i].err = NoError
        /\ Len(hlocal[i].targets) >= 2
        /\ StrLess(hlocal[i].targets[2], hlocal[i].targets[1])
        /\ cfg.defaultTarget \in Range(hlocal[i].targets)
        /\ \E x \in Range(hlocal[i].targets) : x # cfg.defaultTarget

(***************************************************************************)
(* C11.  WithTargetParameter on a cluster-aware tool, multi-target.        *)
(***************************************************************************)
\* A single call of WithTargetParameter on a cluster-aware tool under multi-target
\* topology has just returned.
TargetParameterApplied ==
    /\ AfterCall("WithTargetParameter")
    /\ IsClusterAware(lastCall.arg)
    /\ cfg.isMultiCluster

UpperCaseLetters ==
    {"A", "B", "C", "D", "E", "F", "G", "H", "I", "J", "K", "L", "M",
     "N", "O", "P", "Q", "R", "S", "T", "U", "V", "W", "X", "Y", "Z"}

\* C12: WithTargetListTool returns every tool not named "targets_list" as it was
\* passed; the tool named "targets_list" comes back named <targetParameterName>_list,
\* with a description that names the parameter, the title "<Capitalized name> List"
\* and the generated handler, its other fields as passed.  The heaps are not written.
C12_OnlyThePlaceholder ==
    AfterCall("WithTargetListTool") =>
        LET arg  == lastCall.arg
            ret  == lastCall.ret
            name == cfg.targetParameterName
        IN  /\ schemas = lastCall.schemas
            /\ maps = lastCall.maps
            /\ IF arg.Name # TargetsListToolName
               THEN ret = arg
               ELSE /\ ret.Name = name \o <<"_", "l", "i", "s", "t">>
                    /\ Contains(ret.Description, name)
                    /\ ret.Description = DescListPre \o name \o DescListPost
                    /\ Len(ret.Annotations.Title) = Len(name) + 5
                    /\ ret.Annotations.Title[1] \in UpperCaseLetters
                    /\ ToUpper(SubSeq(ret.Annotations.Title, 1, 1)) = ToUpper(SubSeq(name, 1, 1))
                    /\ SubSeq(ret.Annotations.Title, 2, Len(name)) = SubSeq(name, 2, Len(name))
                    /\ SubSeq(ret.Annotations.Title, Len(name) + 1, Len(name) + 5)
                           = <<" ", "L", "i", "s", "t">>
                    /\ ret.Handler.kind = "createTargetListHandler"
                    /\ ret.Handler # NilHandler
                    /\ ret.Handler.targetParameterName = name
                    /\ ret.Handler.defaultTarget = cfg.defaultTarget
                    /\ [ret EXCEPT !.Name = arg.Name,
                                   !.Description = arg.Description,
                                   !.Annotations.Title = arg.Annotations.Title,
                                   !.Handler = arg.Handler] = arg

\* C12 witness: the placeholder was renamed to cluster_list in a registry that
\* also holds the flagged legacy tool.
C12_Witness ==
    /\ AfterCall("WithTargetListTool")
    /\ lastCall.arg.Name = TargetsListToolName
    /\ lastCall.ret.Name = StrClusterList
    /\ lastCall.kept
    /\ \E i \in 1..Len(tools) : tools[i].Name = LegacyContextsListName

(***************************************************************************)
(* C13.  ComposeMutators.                                                  *)
(***************************************************************************)
\* The first k mutators of a list applied one after the other, each on the tool and
\* heaps the one before it left.
RECURSIVE Threaded(_, _, _)
Threaded(mutators, k, m) ==
    IF k = 0 THEN m
    ELSE ApplyMutator(mutators[k], Threaded(mutators, k - 1, m))

\* C13: ComposeMutators(m1, ..., mn)(d) is mn(...m2(m1(d))), and d itself for n = 0.
C13_ComposeThreads ==
    AfterCall("ComposeMutators") =>
        LET m0  == [tool |-> lastCall.arg, schemas |-> lastCall.schemas,
                    maps |-> lastCall.maps]
            exp == Threaded(lastCall.muts, Len(lastCall.muts), m0)
        IN  /\ lastCall.ret = exp.tool
            /\ schemas = exp.schemas
            /\ maps = exp.maps
            /\ lastCall.muts = <<>> => lastCall.ret = lastCall.arg

\* C13 witness: two target-parameter mutators with different defaults were composed
\* on a cluster-aware tool, so that their order shows in the result.
C13_Witness ==
    /\ AfterCall("ComposeMutators")
    /\ Len(lastCall.muts) = 2
    /\ lastCall.muts[1].kind = "WithTargetParameter"
    /\ lastCall.muts[2].kind = "WithTargetParameter"
    /\ lastCall.muts[1].defaultTarget # lastCall.muts[2].defaultTarget
    /\ IsClusterAware(lastCall.arg)
    /\ cfg.isMultiCluster
    /\ DeepTool(lastCall.ret, schemas, maps)
           # DeepTool(lastCall.arg, lastCall.schemas, lastCall.maps)

(***************************************************************************)
(* C14, C15.  The output normalizer.                                       *)
(***************************************************************************)
Keys(m) == [i \in 1..Len(m.kids) |-> m.kids[i].k]

\* The annotations entry of a metadata mapping is a mapping with no entry other
\* than the last-applied one, so that nothing is left of it.
AnnotationsVanish(meta) ==
    /\ HasKey(meta, KeyAnnotations)
    /\ IsMapping(Get(meta, KeyAnnotations))
    /\ \A i \in 1..Len(Get(meta, KeyAnnotations).kids) :
          Get(meta, KeyAnnotations).kids[i].k = KeyLastApplied

\* mo is the metadata mi without its bookkeeping, and with nothing else changed.
MetadataPruned(mi, mo) ==
    LET Stays(p) == /\ p.k # KeyManagedFields
                    /\ ~(p.k = KeyAnnotations /\ AnnotationsVanish(mi))
        NotLastApplied(p) == p.k # KeyLastApplied
    IN  /\ IsMapping(mo)
        /\ ~HasKey(mo, KeyManagedFields)
        /\ Len(mo.kids) = Len(SelectSeq(mi.kids, Stays))
        /\ \A i \in 1..Len(mo.kids) :
              LET p == SelectSeq(mi.kids, Stays)[i]
              IN  /\ mo.kids[i].k = p.k
                  /\ IF p.k = KeyAnnotations /\ IsMapping(p.v)
                     THEN /\ IsMapping(mo.kids[i].v)
                          /\ mo.kids[i].v.kids # <<>>
                          /\ ~HasKey(mo.kids[i].v, KeyLastApplied)
                          /\ mo.kids[i].v.kids = SelectSeq(p.v.kids, NotLastApplied)
                     ELSE mo.kids[i].v = p.v

\* y is the resource x with its metadata pruned and, when it has an items sequence,
\* with each item that is a resource pruned in the same way; all else is equal.
RECURSIVE ResourcePruned(_, _)
ResourcePruned(x, y) ==
    /\ IsMapping(y)
    /\ Keys(y) = Keys(x)
    /\ \A i \in 1..Len(x.kids) :
          LET p == x.kids[i]
              q == y.kids[i]
          IN  IF p.k = KeyMetadata THEN MetadataPruned(p.v, q.v)
              ELSE IF p.k = KeyItems /\ IsSequence(p.v)
              THEN /\ IsSequence(q.v)
                   /\ Len(q.v.kids) = Len(p.v.kids)
                   /\ \A j \in 1..Len(p.v.kids) :
                         IF IsResource(p.v.kids[j].v)
                         THEN ResourcePruned(p.v.kids[j].v, q.v.kids[j].v)
                         ELSE q.v.kids[j] = p.v.kids[j]
              ELSE q = p

\* C14: for a resource the result is the resource with the bookkeeping entries of
\* its metadata gone (managedFields, the last-applied annotation, and annotations
\* itself when nothing is left in it), likewise for each item of its items sequence
\* and for each mapping element of a top-level sequence; every other field at every
\* level is as it was, and any other value is returned as it was.
C14_RemovesOnlyBookkeeping ==
    nres # <<>> =>
        LET x == nval
            y == nres[1]
        IN  IF IsResource(x) THEN ResourcePruned(x, y)
            ELSE IF IsSequence(x)
            THEN /\ IsSequence(y)
                 /\ Len(y.kids) = Len(x.kids)
                 /\ \A j \in 1..Len(x.kids) :
                       IF IsResource(x.kids[j].v)
                       THEN ResourcePruned(x.kids[j].v, y.kids[j].v)
                       ELSE y.kids[j] = x.kids[j]
            ELSE y = x

\* C14 witness: a list was normalized whose own metadata and whose first item had
\* only the last-applied annotation, its second item being a scalar.
C14_Witness ==
    /\ nres # <<>>
    /\ IsResource(nval)
    /\ Get(nval, KeyMetadata) = DirtyMetadata
    /\ HasKey(nval, KeyItems)
    /\ Get(nval, KeyItems) = SeqOf(<<Resource(DirtyMetadata), Str("a string")>>)
    /\ ~HasKey(Get(Get(nres[1], KeyItems).kids[1].v, KeyMetadata), KeyAnnotations)

\* C15: normalizing the result of a normalization returns it as it is.
C15_Idempotent == Len(nres) = 2 => nres[2] = nres[1]

\* C15 witness: a top-level sequence the first normalization changed was
\* normalized a second time.
C15_Witness ==
    /\ Len(nres) = 2
    /\ IsSequence(nval)
    /\ nres[1] # nval

(***************************************************************************)
(* C16.  The course of one Elicit call.                                    *)
(***************************************************************************)
\* Where a call is and what it has dispatched and returned, in every state.
ElicitCourse ==
    \A i \in Invocations :
        /\ epc[i] = "idle" => session[i].requests = <<>>
        /\ (epc[i] # "idle" /\ ~NoLiveSession(i)) => Len(session[i].requests) = 1
        /\ epc[i] # "done" => eret[i] = NoReturn
        /\ epc[i] = "done" =>
              \/ /\ eret[i].err = NoError
                 /\ Len(eret[i].result) = 1
                 /\ eret[i].result[1].Action \in {"accept", "decline", "cancel"}
                 /\ sret[i].err = NoError
                 /\ eret[i].result[1].Action = sret[i].result[1].Action
                 /\ eret[i].result[1].Content = sret[i].result[1].Content
              \/ /\ eret[i].err # NoError
                 /\ eret[i].result = <<>>

\* The steps of a call: idle, then sent, then the return; nothing after the return.
ElicitStep ==
    \A i \in Invocations :
        /\ <<epc[i], epc'[i]>> \in
               { <<"idle", "idle">>, <<"idle", "waiting">>, <<"idle", "done">>,
                 <<"waiting", "waiting">>, <<"waiting", "returned">>,
                 <<"returned", "returned">>, <<"returned", "done">>,
                 <<"done", "done">> }
        /\ (epc[i] = "idle" /\ epc'[i] = "done") => NoLiveSession(i)
        /\ Len(session'[i].requests) =
               Len(session[i].requests)
                   + (IF epc[i] = "idle" /\ epc'[i] = "waiting" THEN 1 ELSE 0)
        /\ epc[i] = "done" => eret'[i] = eret[i]

\* C16: a call of Elicit goes from idle to sent to one return: with a session it
\* dispatches one request and never another, and returns once, either the action
\* (accept, decline or cancel) and content the session reported or an error.
C16_OneDispatchOneOutcome == []ElicitCourse /\ [][ElicitStep]_vars

\* C16 witness: a call returned the accepted answer with its content after one
\* request, while another call returned a failure of its one request.
C16_Witness ==
    \E i, j \in Invocations :
        /\ epc[i] = "done"
        /\ eret[i].err = NoError
        /\ eret[i].result[1].Action = "accept"
        /\ eret[i].result[1].Content = MapPut(EmptyMap, StrName, StrTestValue)
        /\ Len(session[i].requests) = 1
        /\ epc[j] = "done"
        /\ eret[j].err # NoError
        /\ Len(session[j].requests) = 1

(***************************************************************************)
(* C17.  The target-list tools of the catalog after startup.               *)
(***************************************************************************)
\* The registry handed to startup held the flagged legacy tool and the flagged
\* placeholder.
BothListToolsRegistered ==
    /\ phase = "serving"
    /\ \E t, u \in Range(registered) :
          /\ t.Name = LegacyContextsListName /\ IsTargetListProvider(t)
          /\ u.Name = TargetsListToolName /\ IsTargetListProvider(u)

\* The positions of the catalog that hold a target-list provider.
CatalogListTools == {k \in 1..Len(catalog) : IsTargetListProvider(catalog[k])}

\* C17 as claimed: for a registry with the flagged legacy tool and the flagged
\* placeholder, the catalog after startup holds exactly one target-list provider
\* under multi-target topology, the legacy tool when the parameter name is
\* "context" and "<targetParameterName>_list" otherwise, and none under
\* single-target topology.
C17_ExactlyOneListTool ==
    BothListToolsRegistered =>
        IF cfg.isMultiCluster
        THEN /\ Cardinality(CatalogListTools) = 1
             /\ \A k \in CatalogListTools :
                   catalog[k].Name =
                       IF cfg.targetParameterName = KubeConfigTargetParameterName
                       THEN LegacyContextsListName
                       ELSE GenericListName
        ELSE CatalogListTools = {}

(***************************************************************************)
(* C18.  Concurrent invocations.                                           *)
(***************************************************************************)
\* What belongs to invocation i alone.
InvocationState(i) ==
    <<hpc[i], hlocal[i], hresult[i], ctx[i], session[i], epc[i], sret[i], eret[i]>>

\* A finished invocation returned what it returns when it runs alone: the handler
\* its report of the provider's targets or error, Elicit the answer of its session.
ResultsAsAlone ==
    \A i \in Invocations :
        /\ hpc[i] = "done" =>
              /\ GeneratedHandlers # {}
              /\ \A h \in GeneratedHandlers :
                    hresult[i] = TargetListHandler(h.targetParameterName, h.defaultTarget,
                                                   provider.targets, provider.err)
        /\ epc[i] = "done" => eret[i] = ElicitReturn(sret[i].result, sret[i].err)

\* A step taken while serving leaves the registry, the catalog, the schemas and the
\* provider's targets as they are, and touches the state of one invocation at most.
ServingFrame ==
    phase = "serving" =>
        /\ tools' = tools
        /\ catalog' = catalog
        /\ schemas' = schemas
        /\ maps' = maps
        /\ provider' = provider
        /\ \E i \in Invocations :
              \A j \in Invocations \ {i} : InvocationState(j)' = InvocationState(j)

\* C18: however the invocations of the target-list handler and of Elicit interleave,
\* none changes the catalog or the targets the provider holds, none touches another
\* invocation's state, and each returns what it returns when it runs alone.
C18_NoSharedMutableState == []ResultsAsAlone /\ [][ServingFrame]_vars

\* C18 witness: one invocation has its report of targets the provider holds out of
\* order while another invocation is between GetTargets and its own sort.
C18_Witness ==
    \E i, j \in Invocations :
        /\ hpc[i] = "done"
        /\ hpc[j] = "got"
        /\ provider.err = NoError
        /\ Len(provider.targets) >= 2
        /\ StrLess(provider.targets[2], provider.targets[1])
        /\ hresult[i].result # <<>>

====
